---- MODULE Spec2Model ----
(***************************************************************************)
(* Batch model-inference driver of custom_model_inferencer.py:             *)
(* parse_args and main, read_jsonl, exponential_backoff, call_nova (retry  *)
(* loop), process_batch (thread pool and as_completed), save_to_jsonl, the *)
(* batch loop of cmd_infer, and validate_jsonl with cmd_validate.          *)
(* Python values are modelled as records [t, kv]: t is the type class      *)
(* ("dict", "scalar", "none") and kv the key -> value map of a dict.       *)
(***************************************************************************)
EXTENDS Integers, Sequences, FiniteSets, TLC

\* ---------------------------------------------------------------- bounds
MaxLines == 3      \* lines of the input file
MaxRetries == 1    \* largest --retries
MaxIOErrors == 2   \* writes to a primary output file that fail
FewIOErrors == 1   \* the same, in the specifications other than Spec
ResumeLines == 2   \* lines of the input file when the command is run twice
BackoffRetries == 7  \* --retries when the backoff is followed up to its cap
CallLines == 1     \* lines of the input file when one call is followed
RangeLines == 3    \* lines of the input file when the batch loop is followed
MaxLists == 3      \* calls of list_custom_models in one run of monitor_model_status
MaxCreates == 3    \* calls of create_provisioned_model in one run
MaxGets == 2       \* calls of get_provisioned_model in one run
MaxEvents == 3     \* events added to a ChatHistory

\* ------------------------------------------------- module-level constants
MAX_RETRIES == 3
INITIAL_BACKOFF == 1
MAX_BACKOFF == 32

MinRetries == 0 - 1
Retries == MinRetries..MaxRetries
BatchSizes == {1, 2}
MaxWorkers == {1, 2}

\* ---------------------------------------------------------- Python values
EmptyKV == [k \in {} |-> ""]
None == [t |-> "none", kv |-> EmptyKV]
Dict(kv) == [t |-> "dict", kv |-> kv]
Scalar == [t |-> "scalar", kv |-> EmptyKV]

\* bool(v): None and the empty dict are falsy
Truthy(v) == (v.t = "scalar") \/ (v.t = "dict" /\ DOMAIN v.kv # {})

\* values of a "system" field: a non-empty string, a falsy value ("" [] null),
\* a list whose first element is a dict with / without "text", a list whose
\* first element is no dict, any other truthy value (number, dict, true)
SysFalsy == {"sys_empty"}
SysLists == {"sys_list_text", "sys_list_notext", "sys_list_scalar"}
\* values of a "messages" field: a non-empty list, a falsy value, a truthy
\* value that is not iterable (number, true)
MsgFalsy_none == {}
MsgFalsy == {"msgs_empty"}

\* ------------------------------------------------------------ input lines
E_plain == Dict("messages" :> "msgs")
E_sys == Dict("system" :> "sys_str" @@ "messages" :> "msgs" @@ "response_text" :> "old_text")
E_syslist == Dict("system" :> "sys_list_notext" @@ "messages" :> "msgs")
E_nomsg == Dict("system" :> "sys_list_text")
E_emptymsg == Dict("messages" :> "msgs_empty")
E_badsys == Dict("system" :> "sys_list_scalar" @@ "messages" :> "msgs")
E_badmsg == Dict("messages" :> "msgs_scalar")
E_badsys_nomsg == Dict("system" :> "sys_list_scalar")

Json(v) == [kind |-> "json", v |-> v]
Malformed == [kind |-> "malformed", v |-> None]
Blank == [kind |-> "blank", v |-> None]

LineKinds ==
  << Json(E_plain), Json(E_sys), Json(E_plain), Malformed, Json(E_nomsg),
     Json(E_badsys), Blank, Json(Scalar), Json(E_syslist), Json(E_badmsg),
     Json(E_emptymsg) >>

\* the input files: every window of MaxLines lines of the cycle LineKinds
InputFile(r, len) ==
  [n \in 1..len |-> LineKinds[((n + r - 2) % Len(LineKinds)) + 1]]
InputFiles == {InputFile(r, MaxLines) : r \in 1..Len(LineKinds)}
ResumeFiles == {InputFile(r, ResumeLines) : r \in 1..Len(LineKinds)}

\* ------------------------------------------------------------- read_jsonl
\* json.loads of a line; blank lines are not parsed, malformed lines raise
\* JSONDecodeError and are skipped
RECURSIVE ReadFrom(_, _)
ReadFrom(lines, n) ==
  IF n > Len(lines) THEN << >>
  ELSE IF lines[n].kind = "json"
       THEN << [id |-> n, e |-> lines[n].v] >> \o ReadFrom(lines, n + 1)
       ELSE ReadFrom(lines, n + 1)
\* a loader that stops at the first line json.loads rejects
RECURSIVE ReadUntilError(_, _)
ReadUntilError(lines, n) ==
  IF n > Len(lines) \/ lines[n].kind = "malformed" THEN << >>
  ELSE IF lines[n].kind = "json"
       THEN << [id |-> n, e |-> lines[n].v] >> \o ReadUntilError(lines, n + 1)
       ELSE ReadUntilError(lines, n + 1)
read_jsonl_abort(lines) == ReadUntilError(lines, 1)
read_jsonl(lines) == ReadFrom(lines, 1)


\* ------------------------------------------------------------ save_to_jsonl
\* json.dumps(item): the members of the object, one <<key, value>> pair each
KeyOrder == << "system", "messages", "model_response", "response_text" >>
RECURSIVE DumpFrom(_, _)
DumpFrom(kv, n) ==
  IF n > Len(KeyOrder) THEN << >>
  ELSE IF KeyOrder[n] \in DOMAIN kv
       THEN << << KeyOrder[n], kv[KeyOrder[n]] >> >> \o DumpFrom(kv, n + 1)
       ELSE DumpFrom(kv, n + 1)
JsonDumps(v) == IF v.t = "dict" THEN DumpFrom(v.kv, 1) ELSE << << "", v.t >> >>
\* json.loads of a line written by JsonDumps
JsonLoads(text) ==
  IF \E n \in DOMAIN text : text[n][1] = ""
  THEN [t |-> text[1][2], kv |-> EmptyKV]
  ELSE Dict([k \in {text[n][1] : n \in DOMAIN text} |->
               text[CHOOSE n \in DOMAIN text : text[n][1] = k][2]])

\* one line per item (lines 161-162); id is the item's position in the input
WriteLines(items) == [n \in DOMAIN items |-> [id |-> items[n].id, text |-> JsonDumps(items[n].v)]]

NoFile == [exists |-> FALSE, lines |-> << >>]
\* open(output_file, mode) and the writes: 'w' truncates, 'a' keeps
OpenAndWrite(file, items, mode) ==
  [exists |-> TRUE,
   lines |-> IF mode = "a" THEN file.lines \o WriteLines(items) ELSE WriteLines(items)]

\* save_to_jsonl(data, output_file, mode). ioerror: open() raises, the primary
\* file is left as it is and the items go to <output_file>.backup.<ts>.jsonl,
\* opened in 'w' mode
save_to_jsonl(fs, items, name, mode, ioerror, ts) ==
  IF ~ioerror
  THEN [fs EXCEPT !.primary[name] = OpenAndWrite(fs.primary[name], items, mode)]
  ELSE [fs EXCEPT !.backup =
          {b \in fs.backup : ~(b.name = name /\ b.ts = ts)}
            \cup {[name |-> name, ts |-> ts, lines |-> WriteLines(items)]}]

\* ---------------------------------------------------- exponential_backoff
Min(a, b) == IF a < b THEN a ELSE b
\* line 176: the delay before the jitter of lines 177-178 is applied
exponential_backoff_nocap(retry_number) == INITIAL_BACKOFF * (2 ^ retry_number)
exponential_backoff(retry_number) ==
  Min(MAX_BACKOFF, INITIAL_BACKOFF * (2 ^ retry_number))

\* ---------------------------------------------------------------- call_nova
\* lines 208-215: system_prompt, or the exception raised while building it
\* (a non-dict entry has no membership test or no .get; the first element of
\* a system list that is no dict has no .get)
SystemPrompt(entry) ==
  IF entry.t # "dict" THEN [raised |-> TRUE, prompt |-> None]
  ELSE IF "system" \in DOMAIN entry.kv /\ entry.kv["system"] \notin SysFalsy
  THEN IF entry.kv["system"] \in SysLists
       THEN IF entry.kv["system"] = "sys_list_scalar"
            THEN [raised |-> TRUE, prompt |-> None]
            ELSE [raised |-> FALSE,
                  prompt |-> Dict("text" :> (IF entry.kv["system"] = "sys_list_text"
                                             THEN "sys_text" ELSE ""))]
       ELSE IF entry.kv["system"] = "sys_str"
            THEN [raised |-> FALSE, prompt |-> Dict("text" :> "sys_str")]
            ELSE [raised |-> FALSE, prompt |-> None]
  ELSE [raised |-> FALSE, prompt |-> None]

\* lines 207-232, before the try block: "raise" (an exception leaves
\* call_nova), "nomsg" (return entry, None) or "call" (the loop is entered)
PreparePayload(entry) ==
  IF SystemPrompt(entry).raised THEN "raise"
  ELSE IF "messages" \notin DOMAIN entry.kv \/ entry.kv["messages"] \in MsgFalsy
  THEN "nomsg"
  ELSE IF entry.kv["messages"] = "msgs_scalar" THEN "raise"
  ELSE "call"

\* what client.converse can do: return a response (with a text block, without
\* one, or of a shape on which the subscripts raise TypeError), raise a
\* ClientError with an error code, or raise another exception
Responses == {"resp_text", "resp_notext", "resp_badtype"}
TransientCodes ==
  {"ThrottlingException", "ServiceUnavailableException",
   "InternalServerException", "RequestTimeout"}
OtherCodes == {"AccessDeniedException", "ValidationException"}
ErrorCodes == TransientCodes \cup OtherCodes
Outcomes == Responses \cup ErrorCodes \cup {"exception"}

\* lines 273-274
IsRetriable_none(error_code) == FALSE
IsRetriable_all(error_code) == TRUE
IsRetriable(error_code) == error_code \in TransientCodes

\* lines 259-264: response_text, None when KeyError or IndexError is caught
ExtractText(response) == IF response = "resp_text" THEN "text" ELSE "None"

\* lines 255-264: the copy of the entry with the response attached
AugmentedCopy(entry, response) ==
  Dict([k \in DOMAIN entry.kv \cup {"model_response", "response_text"} |->
          IF k = "model_response" THEN response
          ELSE IF k = "response_text" THEN ExtractText(response)
          ELSE entry.kv[k]])

\* line 255: result = entry.copy(); the assignments of lines 256-264 go to the
\* copy, so the entry object is what it was
EntryAfterCopy_alias(entry, response) == AugmentedCopy(entry, response)
EntryAfterCopy(entry, response) == entry

\* lines 221, 294, 310, 313: the entry returned with None
FailedEntry_marked(entry) ==
  IF entry.t = "dict" THEN Dict(entry.kv @@ ("error" :> "failed")) ELSE entry
FailedEntry(entry) == entry

\* a future and the call_nova it runs: st is the record's state, retry_count
\* the local of call_nova, entry the entry object as the call has left it,
\* result the second component of the pair returned; calls and sleeps count
\* client.converse and time.sleep, delays holds the base delay of every sleep,
\* last is how the last client.converse ended, transient how many of them
\* raised a retriable ClientError and onlyTransient whether every one did
NewFuture ==
  [st |-> "PENDING", retry_count |-> 0, calls |-> 0, sleeps |-> 0, delays |-> << >>,
   transient |-> 0, onlyTransient |-> TRUE, last |-> "none", entry |-> None,
   result |-> None]

\* return entry, None
Fail(f) == [f EXCEPT !.st = "FAILED", !.entry = FailedEntry(@), !.result = None]

\* lines 276-288 and 300-310: retry_count += 1, then sleep and continue while
\* retry_count <= max_retries, else return entry, None
RetryOrFail_early(f, max_retries) ==
  IF f.retry_count + 1 < max_retries
  THEN [f EXCEPT !.st = "TRANSIENT_FAILURE", !.retry_count = @ + 1, !.sleeps = @ + 1,
                 !.delays = Append(@, exponential_backoff((f.retry_count + 1) - 1))]
  ELSE Fail([f EXCEPT !.retry_count = @ + 1])
RetryOrFail(f, max_retries) ==
  IF f.retry_count + 1 <= max_retries
  THEN [f EXCEPT !.st = "TRANSIENT_FAILURE", !.retry_count = @ + 1, !.sleeps = @ + 1,
                 !.delays = Append(@, exponential_backoff((f.retry_count + 1) - 1))]
  ELSE Fail([f EXCEPT !.retry_count = @ + 1])

\* lines 207-237: the call up to the first client.converse
BeginCall_asleep(f, entry, max_retries) ==
  [f EXCEPT !.st = "TRANSIENT_FAILURE", !.entry = entry]
BeginCall(f, entry, max_retries) ==
  LET g == [f EXCEPT !.entry = entry] IN
  IF PreparePayload(entry) = "raise" THEN [g EXCEPT !.st = "RAISED"]
  ELSE IF PreparePayload(entry) = "nomsg" THEN Fail(g)
  ELSE IF g.retry_count <= max_retries
       THEN [g EXCEPT !.st = "IN_FLIGHT", !.calls = @ + 1]
       ELSE Fail(g)

\* how client.converse ended, as the except clauses see it
OutcomeClass(o) ==
  IF o \in {"resp_text", "resp_notext"} THEN "ok"
  ELSE IF o = "resp_badtype" THEN "badtype"
  ELSE IF o \in TransientCodes THEN "transient"
  ELSE IF o \in ErrorCodes THEN "permanent"
  ELSE "exception"

\* lines 238-310: one pass of the loop body after client.converse ended with
\* outcome o
AfterConverse(f, max_retries, o) ==
  LET g == [f EXCEPT !.onlyTransient = @ /\ o \in TransientCodes,
                     !.transient = IF o \in TransientCodes THEN @ + 1 ELSE @,
                     !.last = OutcomeClass(o)] IN
  IF o \in {"resp_text", "resp_notext"}
  THEN [g EXCEPT !.st = "SUCCEEDED", !.entry = EntryAfterCopy(f.entry, o),
                 !.result = AugmentedCopy(f.entry, o)]
  ELSE IF o = "resp_badtype"
  THEN RetryOrFail([g EXCEPT !.entry = EntryAfterCopy(f.entry, o)], max_retries)
  ELSE IF o \in ErrorCodes
  THEN IF IsRetriable(o)
       THEN RetryOrFail(g, max_retries)
       ELSE Fail(g)
  ELSE RetryOrFail(g, max_retries)

\* line 283/306 then line 237: the sleep ends and the loop calls again
AfterSleep_giveup(f) == [f EXCEPT !.st = "FAILED", !.result = None]
AfterSleep(f) == [f EXCEPT !.st = "IN_FLIGHT", !.calls = @ + 1]

Terminal == {"SUCCEEDED", "FAILED", "RAISED"}
Executing == {"IN_FLIGHT", "TRANSIENT_FAILURE"}

\* ------------------------------------------------------------- parse_args
\* the command line as parse_args sees it: the subcommand (none when it is
\* left out), the model options of infer (--model-arn, --model-id with a Nova
\* name, --model-id custom, neither option, both options), whether
\* --custom-model-id is given, and the --input path
ModelOptions == {"model_arn", "model_id", "custom", "none", "both"}
InputPaths == {"in.jsonl", "in.txt", "missing.jsonl"}
CommandLine(c, m, k, p) ==
  [command |-> c, model |-> m, custom_model_id |-> k, input |-> p]
InferCommand == CommandLine("infer", "model_arn", FALSE, "in.jsonl")
CommandLines ==
  {CommandLine("none", "none", FALSE, "in.jsonl"),
   CommandLine("version", "none", FALSE, "in.jsonl"),
   CommandLine("infer", "custom", TRUE, "in.jsonl"),
   CommandLine("infer", "model_arn", FALSE, "missing.jsonl")}
    \cup {CommandLine("validate", "none", FALSE, p) : p \in InputPaths}
    \cup {CommandLine("infer", m, FALSE, "in.jsonl") : m \in ModelOptions}

\* os.path.exists(path) and path.endswith('.jsonl') for the input paths
InputExists(path) == path # "missing.jsonl"
EndsWithJsonl(path) == path # "in.txt"

\* lines 90-93: the required mutually exclusive group; argparse prints the
\* usage and exits with status 2
ParseError(a) == a.command = "infer" /\ a.model \in {"none", "both"}
\* lines 451-454
MissingCustomModelId(a) == a.model = "custom" /\ ~a.custom_model_id

\* ---------------------------------------------------------- validate_jsonl
\* lines 374-416: what one line adds to valid_entries and invalid_entries.
\* A line json.loads rejects (a blank line too: line.strip() is ''), a value
\* that is no object, an object without messages, with messages that is no
\* list or an empty list, with a system that is neither list nor string: one
\* invalid entry. A system list with an element that is no dict or has no
\* "text": invalid_entries += 1 and break (lines 402-403), then line 409
\* still counts the line as valid.
LineVerdict(line) ==
  IF line.kind # "json" \/ line.v.t # "dict" THEN [valid |-> 0, invalid |-> 1]
  ELSE IF "messages" \notin DOMAIN line.v.kv \/ line.v.kv["messages"] # "msgs"
  THEN [valid |-> 0, invalid |-> 1]
  ELSE IF "system" \notin DOMAIN line.v.kv \/ line.v.kv["system"] \in {"sys_str", "sys_list_text"}
  THEN [valid |-> 1, invalid |-> 0]
  ELSE IF line.v.kv["system"] \in {"sys_list_notext", "sys_list_scalar"}
  THEN [valid |-> 1, invalid |-> 1]
  ELSE [valid |-> 0, invalid |-> 1]

NoValidation ==
  [line |-> 0, valid_entries |-> 0, invalid_entries |-> 0, returned |-> "none"]

\* ------------------------------------------------------------ cmd_infer
\* lines 469-470
StartIndexPastEnd_never(start_index, len) == FALSE
StartIndexPastEnd(start_index, len) == start_index > 0 /\ start_index >= len

\* lines 524-526: the counts of the summary; -1 stands for a number that was
\* not printed
SummaryOf_swapped(successes, fails) ==
  [processed |-> Len(successes) + Len(fails), successful |-> Len(fails),
   failed |-> Len(successes), rate |-> 0 - 1]
SummaryOf(successes, fails) ==
  [processed |-> Len(successes) + Len(fails), successful |-> Len(successes),
   failed |-> Len(fails), rate |-> 0 - 1]
\* line 527: successful / processed * 100 with one decimal, in tenths of a
\* percent (rounded to the nearest)
SuccessRate(successful, processed) ==
  (2000 * successful + processed) \div (2 * processed)
NoSummary == [processed |-> 0 - 1, successful |-> 0 - 1, failed |-> 0 - 1, rate |-> 0 - 1]

\* line 474: data[args.start_index:]
SliceFrom_offbyone(d, start_index) == SubSeq(d, start_index + 2, Len(d))
SliceFrom(d, start_index) == SubSeq(d, start_index + 1, Len(d))

\* line 480: os.path.exists(args.output)
OutputFileExists_no(file) == FALSE
OutputFileExists(file) == file.exists

\* line 497
ResultsMode_w(exists, all) == "w"
ResultsMode(exists, all) == IF exists \/ all # << >> THEN "a" ELSE "w"
\* line 504
FailuresMode(exists, all) == IF exists \/ all # << >> THEN "a" ELSE "w"

\* lines 339-342
Sink_inverted(result) == IF Truthy(result) THEN "failures" ELSE "results"
Sink(result) == IF Truthy(result) THEN "results" ELSE "failures"

\* line 337: as_completed has yielded every future of the batch
BatchResolved_any(futs, coll) == coll # {}
BatchResolved(futs, coll) == coll = DOMAIN futs

\* line 488: data[i:i + args.batch_size], as the indices of data (from 1)
BatchSlice_ahead(i, batch_size, len) == (i + 1)..Min(i + batch_size + 1, len)
BatchSlice(i, batch_size, len) == (i + 1)..Min(i + batch_size, len)

\* line 487: range(0, len(data), batch_size) raises ValueError on a step of
\* zero, yields nothing on a negative step, and otherwise counts up by the step
\* while the index is below the length
RangeError(step) == step = 0
RangeDone(index, len, step) == step < 0 \/ index >= len
NextIndex_skip(index, step) == index + step + 1
NextIndex(index, step) == index + step

\* line 330: ThreadPoolExecutor(max_workers=max_workers) has an idle worker
WorkerFree_always(futs, max_workers) == TRUE
WorkerFree(futs, max_workers) ==
  Cardinality({k \in DOMAIN futs : futs[k].st \in Executing}) < max_workers

VARIABLES
  input,               \* the lines of the input file
  args,                \* retries, batch_size, max_workers, start_index
  rerun,               \* FALSE in the first run of cmd_infer, TRUE in the second
  pc,                  \* where the controlling thread is
  data,                \* cmd_infer's data: the records to process
  i,                   \* the loop variable of the batch loop
  fut,                 \* process_batch: the futures of the batch, by index in data
  collected,           \* the futures as_completed has yielded
  results, failures,   \* process_batch's lists
  all_results, all_failures,
  output_file_exists,
  fs,                  \* the output files: primary (results, failures) and backups
  val,                 \* validate_jsonl: its counters and its return value
  summary,             \* the summary cmd_infer has printed
  hist,                \* history: writes of this run, files at the run's start, ...
  mon,                 \* model_copy_to_br.py: one run of monitor_model_status
  chat                 \* chat_history_meter.py: a ChatHistory and its last query

vars ==
  << input, args, rerun, pc, data, i, fut, collected, results, failures,
     all_results, all_failures, output_file_exists, fs, val, summary, hist,
     mon, chat >>

NoFutures == [j \in {} |-> NewFuture]
Loaded == read_jsonl(input)
Offset == IF args.start_index > 0 THEN args.start_index ELSE 0

\* the inferencer's process before main() runs
Inferencer(files, lines, retries, cmds, sizes, starts) ==
  /\ input \in files
  /\ args \in {[command |-> c.command, model |-> c.model,
                custom_model_id |-> c.custom_model_id, input |-> c.input,
                retries |-> r, batch_size |-> b, max_workers |-> w, start_index |-> s] :
                c \in cmds, r \in retries, b \in sizes, w \in MaxWorkers,
                s \in starts}
  /\ rerun = FALSE
  /\ pc = "main"
  /\ data = << >>
  /\ i = 0
  /\ fut = NoFutures
  /\ collected = {}
  /\ results = << >> /\ failures = << >>
  /\ all_results = << >> /\ all_failures = << >>
  /\ output_file_exists = FALSE
  /\ fs = [primary |-> [out |-> NoFile, fail |-> NoFile], backup |-> {}]
  /\ val = NoValidation
  /\ summary = NoSummary
  /\ hist = [writes |-> << >>, pre |-> [out |-> << >>, fail |-> << >>],
             ioerrors |-> 0, clock |-> 0, saved |-> {}, batches |-> << >>,
             resume |-> (args.start_index = 0)]

\* model_copy_to_br.py not started; a ChatHistory as __init__ leaves it
\* (chat_history_meter.py line 142) and never queried
NoMonitor ==
  [pc |-> "none", provisioned_units |-> 0, model_found |-> FALSE, status |-> "none",
   pstatus |-> "none", creates |-> 0, lists |-> 0, gets |-> 0]
NoQuery == [called |-> FALSE, n |-> 0, before |-> << >>, after |-> << >>, value |-> << >>]
NewChatHistory == [events |-> << >>, added |-> 0, got |-> NoQuery]

\* the process before main() runs: the command line and the input file
InitWith(files, lines, retries, cmds, sizes, starts) ==
  /\ mon = NoMonitor
  /\ chat = NewChatHistory
  /\ Inferencer(files, lines, retries, cmds, sizes, starts)

\* lines 548-566 and 446-463: parse_args, the dispatch on the subcommand and,
\* for infer, the model identifier and the client; version prints and returns
Main ==
  /\ pc = "main"
  /\ pc' = IF ParseError(args) THEN "exit2"
           ELSE IF args.command = "none" THEN "exit1"
           ELSE IF args.command = "infer"
                THEN IF MissingCustomModelId(args) THEN "exit1" ELSE "start"
           ELSE IF args.command = "validate" THEN "validate"
           ELSE "done"
  /\ UNCHANGED << mon, chat, val, summary, input, args, rerun, data, i, fut, collected, results,
                  failures, all_results, all_failures, output_file_exists, fs, hist >>

\* lines 465-485: load, skip to the start index, note whether the output
\* exists; read_jsonl raises when the input cannot be opened
Setup ==
  /\ pc = "start"
  /\ IF ~InputExists(args.input)
     THEN /\ pc' = "crashed"
          /\ UNCHANGED << data, output_file_exists, hist, i >>
     ELSE IF StartIndexPastEnd(args.start_index, Len(Loaded))
     THEN /\ pc' = "exit1"
          /\ data' = Loaded
          /\ UNCHANGED << output_file_exists, hist >>
          /\ i' = i
     ELSE /\ pc' = "loop"
          /\ data' = IF args.start_index > 0 THEN SliceFrom(Loaded, args.start_index)
                     ELSE Loaded
          /\ output_file_exists' = OutputFileExists(fs.primary.out)
          /\ hist' = [hist EXCEPT !.writes = << >>, !.batches = << >>,
                                  !.pre = [out |-> fs.primary.out.lines,
                                           fail |-> fs.primary.fail.lines]]
          /\ i' = 0
  /\ all_results' = << >> /\ all_failures' = << >>
  /\ UNCHANGED << mon, chat, val, summary, input, args, rerun, fut, collected, results, failures, fs >>

\* lines 487-493 and 327-335: the next slice is submitted to a new executor
NextBatch ==
  /\ pc = "loop"
  /\ IF RangeError(args.batch_size)
     THEN /\ pc' = "crashed"
          /\ UNCHANGED << fut, collected, results, failures, hist >>
     ELSE /\ ~RangeDone(i, Len(data), args.batch_size)
          /\ pc' = "batch"
          /\ fut' = [j \in BatchSlice(i, args.batch_size, Len(data)) |-> NewFuture]
          /\ collected' = {}
          /\ results' = << >> /\ failures' = << >>
          /\ hist' = [hist EXCEPT !.batches = Append(@, DOMAIN fut')]
  /\ UNCHANGED << mon, chat, val, summary, input, args, rerun, data, i, all_results, all_failures,
                  output_file_exists, fs >>

\* a worker thread takes the oldest queued call_nova
Start(j) ==
  /\ pc \in {"batch", "unwind"}
  /\ j \in DOMAIN fut
  /\ fut[j].st = "PENDING"
  /\ \A k \in DOMAIN fut : k < j => fut[k].st # "PENDING"
  /\ WorkerFree(fut, args.max_workers)
  /\ fut' = [fut EXCEPT ![j] = BeginCall(@, data[j].e, args.retries)]
  /\ UNCHANGED << mon, chat, val, summary, input, args, rerun, pc, data, i, collected, results, failures,
                  all_results, all_failures, output_file_exists, fs, hist >>

\* client.converse returns or raises
Respond(j, o) ==
  /\ pc \in {"batch", "unwind"}
  /\ j \in DOMAIN fut
  /\ fut[j].st = "IN_FLIGHT"
  /\ fut' = [fut EXCEPT ![j] = AfterConverse(@, args.retries, o)]
  /\ UNCHANGED << mon, chat, val, summary, input, args, rerun, pc, data, i, collected, results, failures,
                  all_results, all_failures, output_file_exists, fs, hist >>

\* time.sleep(backoff_time) returns
Wake(j) ==
  /\ pc \in {"batch", "unwind"}
  /\ j \in DOMAIN fut
  /\ fut[j].st = "TRANSIENT_FAILURE"
  /\ fut' = [fut EXCEPT ![j] = AfterSleep(@)]
  /\ UNCHANGED << mon, chat, val, summary, input, args, rerun, pc, data, i, collected, results, failures,
                  all_results, all_failures, output_file_exists, fs, hist >>

\* lines 337-342: as_completed yields a finished future; future.result()
\* returns the pair or raises what call_nova raised
Collect(j) ==
  /\ pc = "batch"
  /\ j \in DOMAIN fut \ collected
  /\ fut[j].st \in Terminal
  /\ collected' = collected \cup {j}
  /\ IF fut[j].st = "RAISED"
     THEN pc' = "unwind" /\ UNCHANGED << results, failures >>
     ELSE /\ pc' = pc
          /\ IF Sink(fut[j].result) = "results"
             THEN /\ results' = Append(results, [id |-> data[j].id, v |-> fut[j].result])
                  /\ failures' = failures
             ELSE /\ failures' = Append(failures, [id |-> data[j].id, v |-> fut[j].entry])
                  /\ results' = results
  /\ UNCHANGED << mon, chat, val, summary, input, args, rerun, data, i, fut, all_results, all_failures,
                  output_file_exists, fs, hist >>

\* line 344: the loop is over, the executor is shut down, the lists are returned
ReturnBatch ==
  /\ pc = "batch"
  /\ BatchResolved(fut, collected)
  /\ pc' = "returned"
  /\ UNCHANGED << mon, chat, val, summary, input, args, rerun, data, i, fut, collected, results, failures,
                  all_results, all_failures, output_file_exists, fs, hist >>

\* the exception leaves the with block once shutdown(wait=True) has waited for
\* every future, and then leaves process_batch and cmd_infer
RaiseBatch ==
  /\ pc = "unwind"
  /\ \A j \in DOMAIN fut : fut[j].st \in Terminal
  /\ pc' = "crashed"
  /\ UNCHANGED << mon, chat, val, summary, input, args, rerun, data, i, fut, collected, results, failures,
                  all_results, all_failures, output_file_exists, fs, hist >>


\* the clock readings a backup file name can carry: the second of the last
\* backup, or a later one
Stamps == {hist.clock, hist.clock + 1}
IOOutcomes(limit) ==
  IF hist.ioerrors < limit THEN {"ok", "primary_fails", "both_fail"} ELSE {"ok"}

\* the history of a call of save_to_jsonl: the file, the mode, whether the
\* file existed when it was opened, and how the write ended; saved holds the
\* records passed to the calls of save_to_jsonl that returned
Logged(h, name, mode, existed, io, ts, items) ==
  [h EXCEPT !.writes = Append(@, [name |-> name, mode |-> mode,
                                  existed |-> existed, io |-> io]),
            !.ioerrors = IF io = "ok" THEN @ ELSE @ + 1,
            !.clock = IF io = "ok" THEN @ ELSE ts,
            !.saved = IF io = "both_fail" THEN @
                      ELSE @ \cup {[name |-> name, id |-> items[n].id] : n \in DOMAIN items}]

\* lines 495-499: the batch's results are saved
SaveResults(limit) ==
  /\ pc = "returned"
  /\ IF results # << >>
     THEN \E io \in IOOutcomes(limit), ts \in Stamps :
            LET mode == ResultsMode(output_file_exists, all_results) IN
            /\ (io = "ok" => ts = hist.clock)
            /\ fs' = IF io = "both_fail" THEN fs
                     ELSE save_to_jsonl(fs, results, "out", mode, io # "ok", ts)
            /\ hist' = Logged(hist, "out", mode, fs.primary.out.exists, io, ts, results)
            /\ pc' = IF io = "both_fail" THEN "crashed" ELSE "save_failures"
            /\ output_file_exists' = IF io = "both_fail" THEN output_file_exists ELSE TRUE
     ELSE /\ pc' = "save_failures"
          /\ UNCHANGED << fs, hist, output_file_exists >>
  /\ UNCHANGED << mon, chat, val, summary, input, args, rerun, data, i, fut, collected, results, failures,
                  all_results, all_failures >>

\* lines 501-512: the batch's failures are saved, the totals are extended and
\* the loop moves on
SaveFailures(limit) ==
  /\ pc = "save_failures"
  /\ \E io \in (IF failures # << >> THEN IOOutcomes(limit) ELSE {"ok"}), ts \in Stamps :
       LET mode == FailuresMode(fs.primary.fail.exists, all_failures) IN
       /\ (io = "ok" => ts = hist.clock)
       /\ IF failures # << >>
          THEN /\ fs' = IF io = "both_fail" THEN fs
                        ELSE save_to_jsonl(fs, failures, "fail", mode, io # "ok", ts)
               /\ hist' = Logged(hist, "fail", mode, fs.primary.fail.exists, io, ts, failures)
          ELSE UNCHANGED << fs, hist >>
       /\ IF io = "both_fail"
          THEN /\ pc' = "crashed"
               /\ UNCHANGED << i, fut, collected, results, failures,
                               all_results, all_failures >>
          ELSE /\ pc' = "loop"
               /\ all_results' = all_results \o results
               /\ all_failures' = all_failures \o failures
               /\ i' = NextIndex(i, args.batch_size)
               /\ UNCHANGED << fut, collected, results, failures >>
  /\ UNCHANGED << mon, chat, val, summary, input, args, rerun, data, output_file_exists >>

\* lines 514-530: the summary; the success rate divides by the total
Summary ==
  /\ pc = "loop"
  /\ ~RangeError(args.batch_size)
  /\ RangeDone(i, Len(data), args.batch_size)
  /\ LET counts == SummaryOf(all_results, all_failures) IN
     IF counts.processed = 0
     THEN pc' = "crashed" /\ summary' = counts
     ELSE /\ pc' = "done"
          /\ summary' = [counts EXCEPT !.rate = SuccessRate(counts.successful, counts.processed)]
  /\ UNCHANGED << mon, chat, val, input, args, rerun, data, i, fut, collected, results, failures,
                  all_results, all_failures, output_file_exists, fs, hist >>

Running == {"loop", "batch", "unwind", "returned", "save_failures"}
Ended == {"done", "crashed", "killed", "exit1", "exit2"}
\* the exit status of the process: 0 when main returns, the argument of
\* sys.exit, 2 from argparse, 1 after an uncaught exception; -1 while it runs
\* or after a kill
ExitStatus ==
  IF pc = "done" THEN 0
  ELSE IF pc \in {"exit1", "crashed"} THEN 1
  ELSE IF pc = "exit2" THEN 2
  ELSE 0 - 1

\* the first record of the loaded sequence whose batch is not flushed, as a
\* start index
FirstUnprocessed == Min(Offset + i, Len(Loaded))

\* the process is killed
Kill ==
  /\ pc \in Running
  /\ pc' = "killed"
  /\ fut' = NoFutures
  /\ collected' = {}
  /\ results' = << >> /\ failures' = << >>
  /\ all_results' = << >> /\ all_failures' = << >>
  /\ hist' = [hist EXCEPT !.resume = @ /\ pc # "save_failures"]
  /\ UNCHANGED << mon, chat, val, summary, input, args, rerun, data, i, output_file_exists, fs >>

\* the command is run again on the same input and output paths
Rerun ==
  /\ pc \in Ended
  /\ ~rerun
  /\ \E s \in 0..ResumeLines :
       /\ args' = [args EXCEPT !.start_index = s]
       /\ hist' = [hist EXCEPT !.resume = @ /\ pc = "killed" /\ s = FirstUnprocessed,
                               !.batches = << >>]
  /\ rerun' = TRUE
  /\ pc' = "main"
  /\ val' = NoValidation
  /\ summary' = NoSummary
  /\ data' = << >>
  /\ fut' = NoFutures
  /\ collected' = {}
  /\ results' = << >> /\ failures' = << >>
  /\ all_results' = << >> /\ all_failures' = << >>
  /\ output_file_exists' = FALSE
  /\ UNCHANGED << mon, chat, input, i, fs >>

\* one run of cmd_infer, the remote call ending in one of the outcomes O and
\* at most `limit` writes to a primary output file failing
Run(O, limit) ==
  \/ Main
  \/ Setup
  \/ NextBatch
  \/ \E j \in DOMAIN fut : Start(j)
  \/ \E j \in DOMAIN fut, o \in O : Respond(j, o)
  \/ \E j \in DOMAIN fut : Wake(j)
  \/ \E j \in DOMAIN fut : Collect(j)
  \/ ReturnBatch
  \/ RaiseBatch
  \/ SaveResults(limit)
  \/ SaveFailures(limit)
  \/ Summary

Init ==
  InitWith(InputFiles, MaxLines, Retries, {InferCommand}, BatchSizes, 0..MaxLines)
Next == Run(Outcomes, MaxIOErrors)
Spec == Init /\ [][Next]_vars

\* the command run, killed or ended, and run again
ResumeOutcomes == {"resp_text", "ThrottlingException", "AccessDeniedException"}
ResumeRetries == {1}
InitResume ==
  InitWith(ResumeFiles, ResumeLines, ResumeRetries, {InferCommand}, BatchSizes, 0..ResumeLines)
NextResume == Run(ResumeOutcomes, FewIOErrors) \/ Kill \/ Rerun
SpecResume == InitResume /\ [][NextResume]_vars

\* one call_nova followed through many retries: --retries at its default and
\* at BackoffRetries
CallFiles == {InputFile(r, CallLines) : r \in 1..Len(LineKinds)}
CallRetries == {MAX_RETRIES, BackoffRetries}
CallOutcomes ==
  {"resp_text", "resp_badtype", "ThrottlingException", "AccessDeniedException"}
InitCall ==
  InitWith(CallFiles, CallLines, CallRetries, {InferCommand}, BatchSizes, 0..CallLines)
NextCall == Run(CallOutcomes, FewIOErrors)
SpecCall == InitCall /\ [][NextCall]_vars

\* one run in which every thread keeps running: every remote call returns,
\* every sleep ends, every worker and the controlling thread are scheduled
LiveRetries == {MinRetries, 1}
InitLive ==
  InitWith(ResumeFiles, ResumeLines, LiveRetries, {InferCommand}, BatchSizes, 0..ResumeLines)
NextLive == Run(ResumeOutcomes, FewIOErrors)
SpecLive == InitLive /\ [][NextLive]_vars /\ WF_vars(NextLive)

\* one run over every --batch-size and --start-index argparse accepts
\* (lines 103-104: any int), on input files that include those from which no
\* record is loaded: the empty file and files of blank and malformed lines
EmptyFiles ==
  {[n \in 1..len |-> IF n % 2 = 1 THEN Blank ELSE Malformed] : len \in 0..RangeLines}
\* records without messages, every other one with a system list whose first
\* element is no dict
NoMessageFiles ==
  {[n \in 1..RangeLines |-> IF n % 2 = 1 THEN Json(E_emptymsg) ELSE Json(E_badsys_nomsg)]}
RangeFiles ==
  {InputFile(r, RangeLines) : r \in 1..Len(LineKinds)} \cup EmptyFiles \cup NoMessageFiles
RangeBatchSizes == {0 - 1, 0} \cup BatchSizes
RangeStarts == (0 - 1)..RangeLines
InitRange ==
  InitWith(RangeFiles, RangeLines, ResumeRetries, {InferCommand}, RangeBatchSizes, RangeStarts)
NextRange == Run(ResumeOutcomes, FewIOErrors)
SpecRange == InitRange /\ [][NextRange]_vars

\* ------------------------------------------------------- validate command
\* lines 357-370: the file is looked up and its extension is checked
ValidateOpen ==
  /\ pc = "validate"
  /\ IF ~InputExists(args.input) \/ ~EndsWithJsonl(args.input)
     THEN pc' = "validated" /\ val' = [val EXCEPT !.returned = "False"]
     ELSE pc' = "validating" /\ val' = val
  /\ UNCHANGED << mon, chat, summary, input, args, rerun, data, i, fut, collected, results,
                  failures, all_results, all_failures, output_file_exists, fs, hist >>

\* lines 373-416: one pass of the loop over the lines
ValidateLine ==
  /\ pc = "validating"
  /\ val.line < Len(input)
  /\ LET verdict == LineVerdict(input[val.line + 1]) IN
     val' = [val EXCEPT !.line = @ + 1,
                        !.valid_entries = @ + verdict.valid,
                        !.invalid_entries = @ + verdict.invalid]
  /\ UNCHANGED << mon, chat, summary, input, args, rerun, pc, data, i, fut, collected, results,
                  failures, all_results, all_failures, output_file_exists, fs, hist >>

\* lines 418-430: the summary is printed and the verdict returned
ValidateReturn ==
  /\ pc = "validating"
  /\ val.line = Len(input)
  /\ val' = [val EXCEPT !.returned = IF val.invalid_entries > 0 THEN "False" ELSE "True"]
  /\ pc' = "validated"
  /\ UNCHANGED << mon, chat, summary, input, args, rerun, data, i, fut, collected, results,
                  failures, all_results, all_failures, output_file_exists, fs, hist >>

\* lines 533-536 and 559-560: cmd_validate drops what validate_jsonl returned
\* and main returns
CmdValidate ==
  /\ pc = "validated"
  /\ pc' = "done"
  /\ UNCHANGED << mon, chat, val, summary, input, args, rerun, data, i, fut, collected, results,
                  failures, all_results, all_failures, output_file_exists, fs, hist >>

\* every command line, on the short input files
InitCli ==
  InitWith(ResumeFiles, ResumeLines, ResumeRetries, CommandLines, BatchSizes, 0..ResumeLines)
NextCli ==
  \/ Run(ResumeOutcomes, FewIOErrors)
  \/ ValidateOpen
  \/ ValidateLine
  \/ ValidateReturn
  \/ CmdValidate
SpecCli == InitCli /\ [][NextCli]_vars

\* ------------------------------------------------------ model_copy_to_br.py
inferVars ==
  << input, args, rerun, pc, data, i, fut, collected, results, failures,
     all_results, all_failures, output_file_exists, fs, val, summary, hist >>
\* the inferencer is not run
NotRunning ==
  /\ Inferencer({<< >>}, 0, {0}, {InferCommand}, {1}, {0})
  /\ args.max_workers = 1

\* the modelStatus of a custom model and the status of a provisioned model,
\* as the service spells them, and str.upper() of them
ModelStatuses == {"Creating", "Active", "Failed", "Stopped"}
ProvisionedStatuses == {"Creating", "InService", "Active", "Failed", "Stopped"}
Upper(status) ==
  CASE status = "Creating" -> "CREATING"
    [] status = "Active" -> "ACTIVE"
    [] status = "InService" -> "INSERVICE"
    [] status = "Failed" -> "FAILED"
    [] status = "Stopped" -> "STOPPED"
    [] OTHER -> status
\* provisioned_units: 0 stands for None (no -p option); main accepts no
\* value below 1 (lines 246-248)
ProvisionedUnits == {0, 2}

\* lines 128-176: one pass of the polling loop after list_custom_models has
\* raised ("error"), returned no model of that name ("absent") or returned the
\* model with status r. When the model is absent and was found in an earlier
\* pass, model_found is still True and target_model['modelStatus'] raises
\* TypeError, which line 178 catches as it catches the error of the call.
AfterList(m, r) ==
  IF r \in {"error", "absent"} THEN [m EXCEPT !.pc = "sleep"]
  ELSE LET g == [m EXCEPT !.model_found = TRUE, !.status = r] IN
       IF Upper(r) = "ACTIVE"
       THEN [g EXCEPT !.pc = IF g.provisioned_units # 0 THEN "provision" ELSE "returned"]
       ELSE IF Upper(r) \in {"FAILED", "STOPPED"} THEN [g EXCEPT !.pc = "exit1"]
       ELSE [g EXCEPT !.pc = "sleep"]

\* lines 56-80: one pass of monitor_provisioned_model's loop; its except
\* clause re-raises and line 178 of the caller catches the exception
AfterGet(m, r) ==
  IF r = "error" THEN [m EXCEPT !.pc = "sleep"]
  ELSE LET g == [m EXCEPT !.pstatus = r] IN
       IF Upper(r) = "ACTIVE" THEN [g EXCEPT !.pc = "returned"]
       ELSE IF Upper(r) \in {"FAILED", "STOPPED"} THEN [g EXCEPT !.pc = "exit1"]
       ELSE [g EXCEPT !.pc = "psleep"]

\* lines 95-124: the client and create_custom_model; an exception is fatal
\* (lines 187-189)
CreateCustomModel ==
  /\ mon.pc = "start"
  /\ \E ok \in BOOLEAN : mon' = [mon EXCEPT !.pc = IF ok THEN "list" ELSE "exit1"]
  /\ UNCHANGED << chat, inferVars >>

\* lines 126-176: list_custom_models and the branch on the model's status
ListCustomModels ==
  /\ mon.pc = "list"
  /\ mon.lists < MaxLists
  /\ \E r \in {"error", "absent"} \cup ModelStatuses :
       mon' = AfterList([mon EXCEPT !.lists = @ + 1], r)
  /\ UNCHANGED << chat, inferVars >>

\* lines 160-164 and 32-40: create_provisioned_model; its exception is
\* re-raised by create_provisioned_throughput and caught at line 178
CreateProvisionedThroughput ==
  /\ mon.pc = "provision"
  /\ mon.creates < MaxCreates
  /\ \E ok \in BOOLEAN :
       mon' = [mon EXCEPT !.creates = @ + 1, !.pc = IF ok THEN "get" ELSE "sleep"]
  /\ UNCHANGED << chat, inferVars >>

\* lines 165-169 and 54-80: get_provisioned_model and the branch on the status
GetProvisionedModel ==
  /\ mon.pc = "get"
  /\ mon.gets < MaxGets
  /\ \E r \in {"error"} \cup ProvisionedStatuses :
       mon' = AfterGet([mon EXCEPT !.gets = @ + 1], r)
  /\ UNCHANGED << chat, inferVars >>

\* line 182: time.sleep(check_interval), then the next pass of the outer loop
SleepThenList ==
  /\ mon.pc = "sleep"
  /\ mon' = [mon EXCEPT !.pc = "list"]
  /\ UNCHANGED << chat, inferVars >>

\* line 76: time.sleep(check_interval) in monitor_provisioned_model
SleepThenGet ==
  /\ mon.pc = "psleep"
  /\ mon' = [mon EXCEPT !.pc = "get"]
  /\ UNCHANGED << chat, inferVars >>

\* lines 184-186: KeyboardInterrupt is no Exception, so only the outer handler
\* catches it
Interrupt ==
  /\ mon.pc \in {"start", "list", "sleep", "provision", "get", "psleep"}
  /\ mon' = [mon EXCEPT !.pc = "exit0"]
  /\ UNCHANGED << chat, inferVars >>

InitMonitor ==
  /\ NotRunning
  /\ chat = NewChatHistory
  /\ mon \in {[NoMonitor EXCEPT !.pc = "start", !.provisioned_units = u] :
                u \in ProvisionedUnits}
NextMonitor ==
  \/ CreateCustomModel
  \/ ListCustomModels
  \/ CreateProvisionedThroughput
  \/ GetProvisionedModel
  \/ SleepThenList
  \/ SleepThenGet
  \/ Interrupt
SpecMonitor == InitMonitor /\ [][NextMonitor]_vars

\* --------------------------------------------------- chat_history_meter.py
\* the events: a TextMessage with its role, a ToolCallMessage, a
\* ToolResultMessage, a UsageEvent; serial tells the objects apart
Roles == {"user", "assistant"}
NewEvent(type, role, history) == [type |-> type, role |-> role, serial |-> history.added + 1]

\* seq[k:] of a Python list: a negative k counts from the end, and the start
\* is clamped to the list
Max(a, b) == IF a > b THEN a ELSE b
ListSlice(seq, k) ==
  LET start == IF k < 0 THEN Max(k + Len(seq), 0) ELSE Min(k, Len(seq))
  IN  SubSeq(seq, start + 1, Len(seq))
\* line 319: self.events[-n:] if n < len(self.events) else self.events.copy()
get_last_n_events(events, n) ==
  IF n < Len(events) THEN ListSlice(events, 0 - n) ELSE events

\* self.events.append(event), lines 147, 156, 179, 189
WithEvent(history, event) ==
  [history EXCEPT !.events = Append(@, event), !.added = @ + 1]
\* lines 144-148
AddMessage ==
  /\ chat.added < MaxEvents
  /\ \E role \in Roles : chat' = WithEvent(chat, NewEvent("text", role, chat))
  /\ UNCHANGED << mon, inferVars >>
\* lines 150-157
AddToolCall ==
  /\ chat.added < MaxEvents
  /\ chat' = WithEvent(chat, NewEvent("tool_call", "tool_call", chat))
  /\ UNCHANGED << mon, inferVars >>
\* lines 182-190
AddToolResult ==
  /\ chat.added < MaxEvents
  /\ chat' = WithEvent(chat, NewEvent("tool_result", "tool_result", chat))
  /\ UNCHANGED << mon, inferVars >>
\* lines 159-180
AddUsageEvent ==
  /\ chat.added < MaxEvents
  /\ chat' = WithEvent(chat, NewEvent("usage_event", "none", chat))
  /\ UNCHANGED << mon, inferVars >>
\* lines 333-335
Clear ==
  /\ chat' = [chat EXCEPT !.events = << >>]
  /\ UNCHANGED << mon, inferVars >>
\* lines 317-319: the query, with the list it returned and the events before
\* and after it
GetLastNEvents ==
  /\ \E n \in 0..(MaxEvents + 1) :
       chat' = [chat EXCEPT !.got = [called |-> TRUE, n |-> n, before |-> chat.events,
                                     after |-> chat.events,
                                     value |-> get_last_n_events(chat.events, n)]]
  /\ UNCHANGED << mon, inferVars >>

InitChat ==
  /\ NotRunning
  /\ mon = NoMonitor
  /\ chat = NewChatHistory
NextChat ==
  \/ AddMessage
  \/ AddToolCall
  \/ AddToolResult
  \/ AddUsageEvent
  \/ Clear
  \/ GetLastNEvents
SpecChat == InitChat /\ [][NextChat]_vars

\* ------------------------------------------------------------- properties
Futures == {fut[j] : j \in DOMAIN fut}

\* C2: with max_retries >= 0, a call_nova whose every client.converse raised a
\* retriable ClientError has returned only as a failure, after exactly
\* max_retries + 1 calls and max_retries sleeps; a failure whose last error
\* was retriable is returned only then, and no call is made beyond
\* max_retries + 1.
C2_TransientExhausts ==
  args.retries >= 0 =>
    \A f \in Futures :
      /\ f.calls <= args.retries + 1
      /\ (f.calls >= 1 /\ f.onlyTransient /\ f.st \in Terminal) =>
            /\ f.st = "FAILED"
            /\ f.calls = args.retries + 1
            /\ f.sleeps = args.retries
      /\ (f.st = "FAILED" /\ f.last = "transient") =>
            (f.calls = args.retries + 1 /\ f.sleeps = args.retries)
C2_Witness ==
  /\ args.retries >= 1
  /\ \E f \in Futures :
       /\ f.st = "FAILED" /\ f.onlyTransient
       /\ f.calls = args.retries + 1 /\ f.sleeps = args.retries

\* C3 as stated: once a client.converse has failed in any way that is not a
\* retriable ClientError, call_nova has returned the failure: it neither
\* sleeps nor calls again.
C3_NonTransientNeverRetried ==
  \A f \in Futures : f.last \in {"permanent", "exception"} => f.st = "FAILED"
\* C3 amended: a ClientError with a code outside the retriable list ends the
\* call at once as a failure (no sleep follows it; one call and no sleep when
\* it is the first outcome), while any other exception is retried with a sleep
\* as long as retry_count <= max_retries.
C3_ClientErrorNeverRetried ==
  \A f \in Futures :
    /\ f.last = "permanent" =>
         /\ f.st = "FAILED" /\ f.result = None
         /\ f.sleeps = f.calls - 1
         /\ f.onlyTransient = FALSE
    /\ (f.last \in {"exception", "badtype"} /\ f.st = "FAILED") =>
         f.calls = args.retries + 1
C3_Witness ==
  \E f \in Futures :
    f.last = "permanent" /\ f.st = "FAILED" /\ f.calls = 1 /\ f.sleeps = 0

\* C4: no call_nova ends by raising an exception.
C4_NeverRaises == \A f \in Futures : f.st # "RAISED"

\* process_batch has ended: by returning, or by the exception of a future
BatchRaised == pc = "crashed" /\ \E f \in Futures : f.st = "RAISED"
\* C5: when process_batch has ended, every record of the batch was invoked
\* and every record whose call succeeded is in the successes it returned.
C5_SiblingsIsolated ==
  (pc = "returned" \/ BatchRaised) =>
    /\ pc = "returned"
    /\ \A j \in DOMAIN fut :
         /\ fut[j].st # "PENDING"
         /\ fut[j].st = "SUCCEEDED" =>
              \E n \in DOMAIN results : results[n].id = data[j].id

\* C6: when process_batch returns, every future of the batch has succeeded or
\* failed, none is executing, and the two lists hold one item per record.
C6_Barrier ==
  pc = "returned" =>
    /\ \A f \in Futures : f.st \in {"SUCCEEDED", "FAILED"}
    /\ Len(results) + Len(failures) = Cardinality(DOMAIN fut)
    /\ Cardinality(DOMAIN fut) = Min(args.batch_size, Len(data) - i)
C6_Witness ==
  /\ pc = "returned"
  /\ Cardinality(DOMAIN fut) = 2
  /\ Len(results) = 1 /\ Len(failures) = 1

\* the input record with identity id
InputRecord(id) == input[id].v
FailureLines ==
  {fs.primary.fail.lines[n] : n \in DOMAIN fs.primary.fail.lines}
    \cup UNION {{b.lines[n] : n \in DOMAIN b.lines} : b \in {c \in fs.backup : c.name = "fail"}}

\* C7: every item of failures, and every line written to the failures file or
\* to a backup of it, is the input record: same keys, same values.
C7_FailureIsInput ==
  /\ \A n \in DOMAIN failures : failures[n].v = InputRecord(failures[n].id)
  /\ \A l \in FailureLines : JsonLoads(l.text) = InputRecord(l.id)
C7_Witness ==
  \E j \in DOMAIN fut :
    /\ fut[j].st = "FAILED" /\ fut[j].onlyTransient
    /\ fut[j].calls = args.retries + 1 /\ args.retries >= 1
    /\ \E n \in DOMAIN fs.primary.fail.lines :
         /\ fs.primary.fail.lines[n].id = data[j].id
         /\ JsonLoads(fs.primary.fail.lines[n].text) = input[data[j].id].v

Unmutated == \A j \in DOMAIN fut : fut[j].st # "PENDING" => fut[j].entry = data[j].e
\* C8 as stated: the entry is never written, and the copy returned on success
\* holds every field of the entry, with its value, plus the two new fields.
C8_CopyKeepsEveryField ==
  /\ Unmutated
  /\ \A j \in DOMAIN fut : fut[j].st = "SUCCEEDED" =>
       /\ DOMAIN fut[j].result.kv = DOMAIN data[j].e.kv \cup {"model_response", "response_text"}
       /\ \A k \in DOMAIN data[j].e.kv : fut[j].result.kv[k] = data[j].e.kv[k]
\* C8 amended: the entry is never written, and the copy returned on success
\* has the keys of the entry plus model_response and response_text; it holds
\* the raw response and the extracted text under these two keys, also when
\* the entry had such a key, and the entry's value under every other key.
C8_CopyOverridesResponseFields ==
  /\ Unmutated
  /\ \A j \in DOMAIN fut : fut[j].st = "SUCCEEDED" =>
       /\ DOMAIN fut[j].result.kv = DOMAIN data[j].e.kv \cup {"model_response", "response_text"}
       /\ \A k \in DOMAIN data[j].e.kv \ {"model_response", "response_text"} :
            fut[j].result.kv[k] = data[j].e.kv[k]
       /\ fut[j].result.kv["model_response"] \in {"resp_text", "resp_notext"}
       /\ fut[j].result.kv["response_text"] =
            (IF fut[j].result.kv["model_response"] = "resp_text" THEN "text" ELSE "None")
C8_Witness ==
  \E j \in DOMAIN fut :
    /\ fut[j].st = "SUCCEEDED"
    /\ "response_text" \in DOMAIN data[j].e.kv
    /\ fut[j].result.kv["response_text"] # data[j].e.kv["response_text"]
    /\ fut[j].entry = data[j].e

\* the number of lines of a file that hold the record with identity id
Count(id, lines) == Cardinality({n \in DOMAIN lines : lines[n].id = id})
IsPrefix(a, b) == Len(a) <= Len(b) /\ SubSeq(b, 1, Len(a)) = a
Out == fs.primary.out.lines
Failed == fs.primary.fail.lines
\* the lines a run has added to a file that began the run as `before`
Added(before, now) == SubSeq(now, Len(before) + 1, Len(now))
NoFailedWrite == \A n \in DOMAIN hist.writes : hist.writes[n].io = "ok"

\* C1 as stated: after a run to completion, every record of data is on exactly
\* one line of the results and failures files taken together, and the two
\* files hold as many lines as there are records.
C1_Partition ==
  pc = "done" =>
    /\ \A n \in DOMAIN data : Count(data[n].id, Out) + Count(data[n].id, Failed) = 1
    /\ Len(Out) + Len(Failed) = Len(data)
\* C1 amended: after a run to completion in which no write failed, the lines
\* the run added to the two files hold every record of data exactly once, a
\* result line in the results file or the unchanged record in the failures
\* file, and the lines the files held before the run are still in front.
C1_PartitionOfAddedLines ==
  (pc = "done" /\ NoFailedWrite) =>
    /\ IsPrefix(hist.pre.out, Out) /\ IsPrefix(hist.pre.fail, Failed)
    /\ LET newOut == Added(hist.pre.out, Out)
           newFail == Added(hist.pre.fail, Failed)
       IN /\ \A n \in DOMAIN data :
               Count(data[n].id, newOut) + Count(data[n].id, newFail) = 1
          /\ Len(newOut) + Len(newFail) = Len(data)
          /\ \A n \in DOMAIN newOut : "model_response" \in DOMAIN JsonLoads(newOut[n].text).kv
          /\ \A n \in DOMAIN newFail : JsonLoads(newFail[n].text) = InputRecord(newFail[n].id)
C1_Witness ==
  /\ pc = "done" /\ NoFailedWrite /\ rerun
  /\ hist.pre.out # << >>
  /\ Len(data) >= 2
  /\ Len(Out) > Len(hist.pre.out) /\ Len(Failed) > Len(hist.pre.fail)

FirstWrite(n) == \A m \in 1..(n - 1) : hist.writes[m].name # hist.writes[n].name
\* C9 as stated: in every run the first write to a file is in mode 'w' and
\* every later one in mode 'a'.
C9_FirstWriteOverwrites ==
  \A n \in DOMAIN hist.writes :
    hist.writes[n].mode = (IF FirstWrite(n) THEN "w" ELSE "a")
\* C9 amended: a write is in mode 'w' exactly when it is the run's first write
\* to the file and the file does not exist (for the results file: did not
\* exist when the run began); every other write is in mode 'a', so no write
\* truncates lines of earlier batches or of an earlier run.
C9_OverwriteOnlyWhenAbsent ==
  /\ \A n \in DOMAIN hist.writes :
       hist.writes[n].mode = "w" <=> (FirstWrite(n) /\ ~hist.writes[n].existed)
  /\ pc \in (Running \cup {"done"}) =>
       (IsPrefix(hist.pre.out, Out) /\ IsPrefix(hist.pre.fail, Failed))
C9_Witness ==
  /\ rerun
  /\ Len(hist.writes) >= 2
  /\ hist.writes[1].name = "out" /\ hist.writes[1].existed /\ hist.writes[1].mode = "a"
  /\ hist.writes[2].name = "out" /\ hist.writes[2].mode = "a"

\* the records before the first unprocessed one are each on exactly one line
\* of the two files, the others on none
ExactlyFlushed ==
  \A n \in DOMAIN Loaded :
    Count(Loaded[n].id, Out) + Count(Loaded[n].id, Failed)
      = (IF n <= FirstUnprocessed THEN 1 ELSE 0)
\* the first run killed between two flushes, or the second run between flushes
AtRest ==
  pc = "killed" \/ (rerun /\ pc \in {"killed", "done", "exit1", "loop", "batch", "returned"})
LinesOf(name) ==
  {fs.primary[name].lines[n] : n \in DOMAIN fs.primary[name].lines}
    \cup UNION {{b.lines[n] : n \in DOMAIN b.lines} : b \in {c \in fs.backup : c.name = name}}
\* C11: every record passed to a call of save_to_jsonl that returned is on a
\* line of the primary file or of a backup file of that output: a write that
\* fails on the primary file leaves the batch in a backup, and no later flush
\* removes it.
C11_NoRecordDropped ==
  \A s \in hist.saved : \E l \in LinesOf(s.name) : l.id = s.id

\* the batch of the record at index n of data, and the index of a record
BatchOf(n) == (n - 1) \div args.batch_size
IndexOf(id) == CHOOSE n \in DOMAIN data : data[n].id = id
FileNames == {"out", "fail"}
\* C12: when a record is submitted to the executor, every record of every
\* earlier batch has been passed to a save_to_jsonl call that returned, and in
\* each output file the lines of an earlier batch precede the lines of a
\* later batch.
C12_BatchesSequential ==
  /\ \A j \in DOMAIN fut : \A n \in DOMAIN data :
       BatchOf(n) < BatchOf(j) => \E s \in hist.saved : s.id = data[n].id
  /\ \A name \in FileNames : \A m, n \in DOMAIN fs.primary[name].lines :
       m < n => BatchOf(IndexOf(fs.primary[name].lines[m].id))
                  <= BatchOf(IndexOf(fs.primary[name].lines[n].id))
C12_Witness ==
  /\ pc = "batch" /\ i >= 2 * args.batch_size
  /\ \E j \in DOMAIN fut : fut[j].st = "IN_FLIGHT"
  /\ Len(Out) >= 2
  /\ BatchOf(IndexOf(Out[1].id)) < BatchOf(IndexOf(Out[2].id))

\* the call_nova invocations in a remote call or in a backoff sleep
Invocations == {j \in DOMAIN fut : fut[j].st \in Executing}
\* C13: at most max_workers invocations of call_nova execute at any moment,
\* they execute only while process_batch is running, and all of them are
\* records of the batch being processed.
C13_BoundedConcurrency ==
  /\ Cardinality(Invocations) <= args.max_workers
  /\ Invocations # {} => pc \in {"batch", "unwind"}
  /\ \A j \in Invocations : BatchOf(j) = i \div args.batch_size
C13_Witness ==
  /\ args.max_workers = 1 /\ args.batch_size = 2
  /\ \E j, k \in DOMAIN fut :
       fut[j].st = "TRANSIENT_FAILURE" /\ fut[k].st = "PENDING"

\* the lines of the input that hold a JSON value
Parsable == {n \in DOMAIN input : input[n].kind = "json"}
\* C14: read_jsonl returns the values of the lines that parse, one record per
\* such line and in file order, whatever malformed lines stand among them;
\* cmd_infer goes on with these records.
C14_SkipsMalformed ==
  /\ {Loaded[n].id : n \in DOMAIN Loaded} = Parsable
  /\ Len(Loaded) = Cardinality(Parsable)
  /\ \A m, n \in DOMAIN Loaded : m < n => Loaded[m].id < Loaded[n].id
  /\ \A n \in DOMAIN Loaded : Loaded[n].e = input[Loaded[n].id].v
  /\ ( /\ args.command = "infer" /\ InputExists(args.input)
       /\ pc \notin {"main", "start", "exit1", "exit2"}
       /\ args.start_index = 0 ) => data = Loaded
C14_Witness ==
  /\ Len(input) = 2
  /\ input[1].kind = "malformed" /\ input[2].kind = "json"
  /\ pc = "loop" /\ Len(data) = 1 /\ data[1].id = 2

\* C15: a validate command that has exited with status 0 has validated the
\* file successfully (validate_jsonl returned True); after a failed
\* validation the exit status is not 0.
C15_ExitStatusReflectsValidation ==
  (args.command = "validate" /\ pc \in Ended) =>
    (ExitStatus = 0 <=> val.returned = "True")

\* the configuration errors: no subcommand, no model option or both, custom
\* without --custom-model-id, a start index at or past the end of the records
ConfigError ==
  \/ args.command = "none"
  \/ /\ args.command = "infer"
     /\ \/ args.model \in {"none", "both"}
        \/ args.model = "custom" /\ ~args.custom_model_id
        \/ /\ InputExists(args.input)
           /\ args.start_index > 0 /\ args.start_index >= Cardinality(Parsable)
\* C16: on a configuration error the process never gets to the batch loop:
\* no future is ever created, no save_to_jsonl is called, no output file or
\* backup exists, and when the process has ended its exit status is not 0.
C16_FatalConfigExits ==
  ConfigError =>
    /\ pc \in {"main", "start", "exit1", "exit2"}
    /\ fut = NoFutures /\ hist.writes = << >> /\ hist.saved = {}
    /\ fs = [primary |-> [out |-> NoFile, fail |-> NoFile], backup |-> {}]
    /\ pc \in Ended => ExitStatus \in {1, 2}
C16_Witness ==
  /\ pc = "exit1" /\ ExitStatus = 1
  /\ args.command = "infer" /\ args.model = "model_arn"
  /\ Len(Loaded) >= 1 /\ args.start_index = Len(Loaded)
  /\ fs.primary.out = NoFile

WritesTo(name) == {n \in DOMAIN hist.writes : hist.writes[n].name = name}
\* the summary of three records that all succeed: 3 successful, 0 failed, 100.0%
ThreeOfThree == [processed |-> 3, successful |-> 3, failed |-> 0, rate |-> 1000]
\* C17 as stated: the summary's processed is successful + failed and the
\* number of records of data; successful and failed are the numbers of lines
\* the run wrote to the results file and to the failures file; for 3 records
\* that all succeed it is 3, 0 and 100.0% and no failures file is written.
C17_SummaryMatchesFiles ==
  summary # NoSummary =>
    /\ summary.processed = summary.successful + summary.failed
    /\ summary.processed = Len(data)
    /\ summary.successful = Len(Added(hist.pre.out, Out))
    /\ summary.failed = Len(Added(hist.pre.fail, Failed))
    /\ (Len(data) = 3 /\ summary.successful = 3) =>
         (summary = ThreeOfThree /\ WritesTo("fail") = {})
\* C17 amended: processed = successful + failed = the number of records of
\* data, always; successful and failed are the numbers of lines the run wrote
\* to the results file and to the failures file when no write to an output
\* file failed (a batch whose write failed is counted, but its lines are in a
\* backup file); 3 records that all succeed give 3, 0, 100.0% and no write to
\* the failures file.
C17_SummaryMatchesFilesNoWriteError ==
  summary # NoSummary =>
    /\ summary.processed = summary.successful + summary.failed
    /\ summary.processed = Len(data)
    /\ NoFailedWrite =>
         /\ summary.successful = Len(Added(hist.pre.out, Out))
         /\ summary.failed = Len(Added(hist.pre.fail, Failed))
    /\ (Len(data) = 3 /\ summary.successful = 3) =>
         (summary = ThreeOfThree /\ WritesTo("fail") = {})
C17_Witness ==
  /\ pc = "done" /\ summary = ThreeOfThree
  /\ Len(Out) = 3 /\ ~fs.primary.fail.exists /\ NoFailedWrite

\* the base delays of the successive sleeps of one call_nova
BaseDelays == << 1, 2, 4, 8, 16, 32, 32, 32, 32 >>
\* C18: the base delay of the i-th sleep of a call_nova is
\* min(MAX_BACKOFF, INITIAL_BACKOFF * 2^(i-1)): 1, 2, 4, 8, 16, 32 and 32 from
\* then on; the delays never decrease and never exceed MAX_BACKOFF.
C18_BackoffDoublesToCap ==
  \A f \in Futures :
    /\ Len(f.delays) = f.sleeps
    /\ f.delays = SubSeq(BaseDelays, 1, Len(f.delays))
    /\ \A k \in DOMAIN f.delays :
         /\ f.delays[k] = Min(MAX_BACKOFF, INITIAL_BACKOFF * (2 ^ (k - 1)))
         /\ f.delays[k] <= MAX_BACKOFF
         /\ k > 1 => f.delays[k - 1] <= f.delays[k]
C18_Witness ==
  \E f \in Futures :
    Len(f.delays) = 7 /\ f.delays[5] = 16 /\ f.delays[6] = 32 /\ f.delays[7] = 32

\* the call of record j returned success after transient errors only
SucceededAfterTransient(j) ==
  fut[j].st = "SUCCEEDED" /\ fut[j].transient = fut[j].calls - 1
InResultsFile(j) == \E n \in DOMAIN Out : Out[n].id = data[j].id
\* C19 as stated: a call that meets k <= max_retries transient errors and then
\* a success makes k sleeps and k + 1 calls and returns success, and once the
\* run has ended the record is on a line of the results file.
C19_TransientThenSuccessInFile ==
  \A j \in DOMAIN fut :
    /\ SucceededAfterTransient(j) =>
         /\ fut[j].sleeps = fut[j].transient /\ fut[j].calls = fut[j].transient + 1
         /\ Truthy(fut[j].result)
         /\ pc \in {"done", "crashed"} => InResultsFile(j)
    /\ (fut[j].st = "FAILED" /\ fut[j].onlyTransient /\ fut[j].calls >= 1) =>
         fut[j].transient > args.retries
\* C19 amended: such a call makes k sleeps and k + 1 calls and returns success
\* (it never gives up while the transient errors are at most max_retries), and
\* the record is on a line of the results file once its batch has been
\* flushed, provided no write to an output file failed.
C19_TransientThenSuccess ==
  \A j \in DOMAIN fut :
    /\ SucceededAfterTransient(j) =>
         /\ fut[j].transient <= args.retries
         /\ fut[j].sleeps = fut[j].transient /\ fut[j].calls = fut[j].transient + 1
         /\ Truthy(fut[j].result)
         /\ (pc \in {"save_failures", "loop", "done"} /\ NoFailedWrite) => InResultsFile(j)
    /\ (fut[j].st = "FAILED" /\ fut[j].onlyTransient /\ fut[j].calls >= 1) =>
         fut[j].transient > args.retries
C19_Witness ==
  /\ args.retries = MAX_RETRIES /\ Len(data) = 1 /\ pc = "done"
  /\ \E j \in DOMAIN fut :
       /\ SucceededAfterTransient(j) /\ fut[j].transient = 2
       /\ fut[j].sleeps = 2 /\ fut[j].calls = 3
       /\ InResultsFile(j)

\* C20: once client.converse has returned a response, the call has succeeded
\* and calls no more: the copy returned holds the response, with
\* response_text None when no text could be extracted, and the record is
\* never put among the failures.
C20_ExtractionFailureIsSuccess ==
  \A j \in DOMAIN fut :
    fut[j].last \in {"ok", "badtype"} =>
      /\ fut[j].st = "SUCCEEDED"
      /\ fut[j].result.kv["response_text"] \in {"text", "None"}
      /\ \A n \in DOMAIN failures : failures[n].id # data[j].id

\* C21: the validate command creates no future, and after every pass of its
\* loop valid_entries + invalid_entries is the number of lines read: each
\* line is counted once, as valid or as invalid.
C21_EachLineCountedOnce ==
  args.command = "validate" =>
    /\ fut = NoFutures
    /\ val.valid_entries + val.invalid_entries = val.line

\* the transitions of a record's state the specification's state machine has
StatedTransitions ==
  { << "PENDING", "IN_FLIGHT" >>, << "IN_FLIGHT", "TRANSIENT_FAILURE" >>,
    << "TRANSIENT_FAILURE", "IN_FLIGHT" >>, << "IN_FLIGHT", "SUCCEEDED" >>,
    << "IN_FLIGHT", "FAILED" >> }
\* the transitions call_nova adds: failure before any call (no messages, or
\* max_retries < 0) and an exception raised before the first call
EarlyTransitions == { << "PENDING", "FAILED" >>, << "PENDING", "RAISED" >> }
\* every record that stays in the batch keeps its state or takes a transition
\* of T, and a record in a terminal state is not touched again
Follows(T) ==
  \A j \in DOMAIN fut \cap DOMAIN fut' :
    /\ fut'[j].st # fut[j].st => << fut[j].st, fut'[j].st >> \in T
    /\ fut[j].st \in Terminal => fut'[j] = fut[j]
BatchOver == \A j \in DOMAIN fut : fut[j].st \in Terminal
\* C22 as stated: records move only along PENDING, IN_FLIGHT,
\* (TRANSIENT_FAILURE, IN_FLIGHT)*, SUCCEEDED or FAILED; the cycles are at most
\* max_retries; terminal records make no call and no sleep; every record of a
\* batch ends SUCCEEDED or FAILED and the driver terminates.
C22_StateMachineAsStated ==
  /\ [][Follows(StatedTransitions)]_vars
  /\ [](\A f \in Futures : f.sleeps <= args.retries /\ f.st # "RAISED")
  /\ (pc = "batch") ~> BatchOver
  /\ <>(pc \in Ended)
\* C22 amended: a record may also leave PENDING directly, as FAILED (no
\* messages, or max_retries < 0) or by an exception of call_nova; the cycles
\* are at most max_retries, none when max_retries < 0; terminal records make no
\* call and no sleep; every record of a batch ends SUCCEEDED, FAILED or
\* raised, and the driver terminates (by the summary, by sys.exit or by an
\* uncaught exception).
C22_StateMachine ==
  /\ [][Follows(StatedTransitions \cup EarlyTransitions)]_vars
  /\ [](\A f \in Futures :
         /\ f.sleeps <= (IF args.retries < 0 THEN 0 ELSE args.retries)
         /\ f.sleeps = (IF f.calls = 0 THEN 0
                        ELSE IF f.st = "TRANSIENT_FAILURE" THEN f.calls ELSE f.calls - 1)
         /\ f.st \in {"SUCCEEDED", "TRANSIENT_FAILURE"} => f.calls >= 1)
  /\ (pc = "batch") ~> BatchOver
  /\ <>(pc \in Ended)
C22_Witness ==
  /\ pc = "done" /\ args.retries = 1
  /\ \E f \in Futures : f.st = "SUCCEEDED" /\ f.sleeps = 1 /\ f.calls = 2
  /\ \E f \in Futures : f.st = "FAILED" /\ f.calls = 0

\* the items of the two lists of process_batch that hold record id
Appended(id) ==
  Cardinality({n \in DOMAIN results : results[n].id = id})
    + Cardinality({n \in DOMAIN failures : failures[n].id = id})
\* C23: the two lists hold one item per future as_completed has yielded, no
\* record twice, and when process_batch has ended (by returning or by the
\* exception of a future) every record of the batch has been appended exactly
\* once.
C23_AppendedExactlyOnce ==
  /\ \A j \in DOMAIN fut : Appended(data[j].id) <= 1
  /\ pc \in {"batch", "unwind", "returned"} =>
       Len(results) + Len(failures) = Cardinality(collected)
  /\ (pc = "returned" \/ BatchRaised) =>
       \A j \in DOMAIN fut : Appended(data[j].id) = 1


SetMin(S) == CHOOSE x \in S : \A y \in S : x <= y
SetMax(S) == CHOOSE x \in S : \A y \in S : x >= y
\* the loop over the batches has run to its end and the summary was started
LoopEnded == summary # NoSummary
InFlight == pc \in {"batch", "unwind", "returned", "save_failures"}
Batches ==
  /\ \A k \in DOMAIN hist.batches :
       LET b == hist.batches[k] IN
       /\ b # {} /\ b = SetMin(b)..SetMax(b)
       /\ SetMin(b) = IF k = 1 THEN 1 ELSE SetMax(hist.batches[k - 1]) + 1
       /\ Cardinality(b) \in 1..args.batch_size
       /\ k < Len(hist.batches) => Cardinality(b) = args.batch_size
  /\ InFlight => hist.batches # << >> /\ DOMAIN fut = hist.batches[Len(hist.batches)]
  /\ LoopEnded => UNION {hist.batches[k] : k \in DOMAIN hist.batches} = DOMAIN data
\* C24 as stated: the batches are contiguous, pairwise disjoint slices of the
\* records to process, in input order, each of batch_size records except a
\* last one of 1..batch_size, and when the loop has ended they cover every
\* record to process, whatever --batch-size is
C24_BatchesPartitionAnySize == pc \notin {"main", "start"} => Batches
\* C24: for a --batch-size of at least 1 the batches are contiguous, pairwise
\* disjoint slices of the records to process, in input order, each of
\* batch_size records except a last one of 1..batch_size; the futures of the
\* batch in flight are those of the latest slice; when the loop has ended the
\* slices cover every record to process
C24_BatchesPartition ==
  (args.batch_size >= 1 /\ pc \notin {"main", "start"}) => Batches
C24_Witness ==
  /\ pc = "done" /\ args.batch_size = 2 /\ Len(data) = 3
  /\ hist.batches = << {1, 2}, {3} >>

\* the number of batches a record of the input was submitted in
Dispatches(id) ==
  Cardinality({k \in DOMAIN hist.batches : \E j \in hist.batches[k] : data[j].id = id})
Untouched(id) ==
  /\ Dispatches(id) = 0
  /\ \A j \in DOMAIN fut : data[j].id # id
  /\ \A name \in FileNames : \A l \in LinesOf(name) : l.id # id
\* the start index rule; `ended` says when every record to process must have
\* been dispatched
StartIndexRule(ended) ==
  LET s == args.start_index
      n == Len(Loaded)
      first == IF s > 0 THEN s + 1 ELSE 1
  IN  IF s >= n
      THEN /\ \A p \in 1..n : Untouched(Loaded[p].id)
           /\ hist.batches = << >> /\ fut = NoFutures
           /\ s > 0 => pc = "exit1"
           /\ pc \in Ended => ExitStatus = 1
      ELSE /\ \A p \in 1..(first - 1) : Untouched(Loaded[p].id)
           /\ \A p \in first..n :
                /\ Dispatches(Loaded[p].id) <= 1
                /\ ended => Dispatches(Loaded[p].id) = 1
\* C25 as stated: the records before the start index are never dispatched and
\* are in no output, every other record has been dispatched exactly once when
\* the run has ended, and a start index at or past the number of loaded
\* records ends the run with status 1 and nothing dispatched
C25_StartIndexAnyRun == pc \notin {"main", "start"} => StartIndexRule(pc \in Ended)
\* C25: the same, every other record having been dispatched exactly once when
\* the batch loop has run to its end with a batch size of at least 1, and at
\* most once at any time
C25_StartIndex ==
  pc \notin {"main", "start"} => StartIndexRule(LoopEnded /\ args.batch_size >= 1)
C25_Witness ==
  /\ pc = "done" /\ args.start_index = 1 /\ Len(Loaded) = 3 /\ Len(data) = 2
  /\ Dispatches(Loaded[2].id) = 1 /\ Dispatches(Loaded[3].id) = 1
  /\ Untouched(Loaded[1].id)
  /\ \E l \in LinesOf("out") : l.id = Loaded[2].id

\* C26: on an input file from which no record is loaded, with a start index
\* that skips nothing and a batch size of at least 1, cmd_infer makes no remote
\* call and writes no output, and the run ends by returning from main after a
\* summary of 0 processed records
C26_ZeroRecordsCompletes ==
  (Len(Loaded) = 0 /\ args.start_index <= 0 /\ args.batch_size >= 1) =>
    /\ fut = NoFutures /\ hist.batches = << >> /\ hist.writes = << >>
    /\ fs = [primary |-> [out |-> NoFile, fail |-> NoFile], backup |-> {}]
    /\ pc \in Ended => pc = "done" /\ ExitStatus = 0 /\ summary.processed = 0

\* the record is a JSON object whose messages field is missing or empty
NoMessages(entry) ==
  /\ entry.t = "dict"
  /\ "messages" \notin DOMAIN entry.kv \/ entry.kv["messages"] = "msgs_empty"
OnFailuresLine(j) ==
  \E n \in DOMAIN Failed :
    Failed[n].id = data[j].id /\ JsonLoads(Failed[n].text) = InputRecord(data[j].id)
C28_ProvisionedOnce ==
  /\ mon.creates <= 1
  /\ mon.pc = "returned" =>
       /\ Upper(mon.status) = "ACTIVE"
       /\ mon.provisioned_units # 0 => mon.creates >= 1 /\ Upper(mon.pstatus) = "ACTIVE"
  /\ (mon.pc = "exit1" /\ mon.lists > 0) =>
       \/ Upper(mon.status) \in {"FAILED", "STOPPED"}
       \/ Upper(mon.pstatus) \in {"FAILED", "STOPPED"}

\* C29: get_last_n_events(n), n >= 0, returns the last min(n, len(events))
\* events of the history in their order, the empty list for n = 0, and leaves
\* the history as it was
C29_LastNEvents ==
  chat.got.called =>
    LET before == chat.got.before
        k == Min(chat.got.n, Len(before))
    IN  /\ chat.got.value = SubSeq(before, Len(before) - k + 1, Len(before))
        /\ chat.got.n = 0 => chat.got.value = << >>
        /\ chat.got.after = before
====
